---- MODULE Spec2Model ----
(***************************************************************************)
(* Historical district attribution: districtService.ts (fetchDistrictShape,*)
(* fetchAllDistrictShapesForYear), congressionalDataLoader.ts and the      *)
(* loadRealData handler of the Map component.                              *)
(*                                                                         *)
(* JavaScript runs one task at a time: the code between two network awaits *)
(* is one atomic step.  Every action below is therefore "a pending fetch   *)
(* settles (or a call is made) and the code runs up to the next network    *)
(* await or to its return", continuations of awaiting callers included.    *)
(* A fetch and the res.json() that follows it settle in one step: nothing  *)
(* is read or written between the two.                                     *)
(***************************************************************************)
EXTENDS Integers, Sequences, FiniteSets, TLC

VARIABLES
  shapeCache,               \* Map<string, geometry>, key `${era}-${code}`
  stateEraCollectionCache,  \* Map<string, collection>, key `${era}-${stateAbbr}`
  served,                   \* the geometry source: what each URL answered with
  probe,                    \* one direct fetchDistrictShape call (its frame)
  ncalls,                   \* number of calls made so far
  resolved,                 \* history: (era, state, district) already resolved
  runs,                     \* fetchAllDistrictShapesForYear calls (frames)
  loads,                    \* loadRealData calls (frames)
  loadCounterRef,
  isLoadingData,
  districtsCount,
  termsByKeyRef,
  layer,                    \* the rendered '.districts' layer
  dataLoader                \* CongressionalDataLoader: isLoaded, allTerms

vars == <<shapeCache, stateEraCollectionCache, served, probe, ncalls, resolved,
          runs, loads, loadCounterRef, isLoadingData, districtsCount,
          termsByKeyRef, layer, dataLoader>>

----------------------------------------------------------------------------
(* Bounds of the model *)

\* direct fetchDistrictShape calls made one after the other
MaxCalls == 2
\* direct fetchAllDistrictShapesForYear calls made one after the other
MaxRuns == 1
\* loadRealData calls
MaxLoads == 2
\* URLs of the geometry source whose record is not a plain, plausible one
MaxOdd == 1

(* Program constants *)

\* LegislatorTerm.district is optional: the value of an absent district
Absent == -1
\* the implausibility threshold of the bounding-box guard
SpanLimit == 30
\* fetchAllDistrictShapesForYear: resolutions in flight per batch
CONCURRENCY == 16

Years == {1995, 2015, 2024}
Eras == {1962, 1972, 1982, 1992, 2002, 2012, 2022}

----------------------------------------------------------------------------
(* Maps (JavaScript Map / Record) as functions with a growing domain *)

EmptyMap == [x \in {} |-> 0]
Has(m, k) == k \in DOMAIN m
Put(m, k, v) == [x \in (DOMAIN m) \cup {k} |-> IF x = k THEN v ELSE m[x]]

SetMin(S) == CHOOSE x \in S : \A y \in S : x <= y
SetMax(S) == CHOOSE x \in S : \A y \in S : x >= y

----------------------------------------------------------------------------
(* Terms *)

Term(b, p, ch, st, d, sy, ey) ==
  [bioguide |-> b, party |-> p, chamber |-> ch, state |-> st, district |-> d,
   startYear |-> sy, endYear |-> ey]

\* String(districtId)
StringOf(d) ==
  CASE d = 0 -> "0" [] d = 1 -> "1" [] d = 2 -> "2" [] d = 3 -> "3"
    [] d = 4 -> "4" [] d = 5 -> "5" [] d = 14 -> "14" [] OTHER -> "n"

\* (!districtId || districtId === 0)
IsAtLarge(districtId) == districtId = Absent \/ districtId = 0

stateNameMap == [NY |-> "New_York", WY |-> "Wyoming"]

abbrToStateName(abbr) ==
  IF abbr \in DOMAIN stateNameMap THEN stateNameMap[abbr] ELSE ""

\* the block counted from the vintage year itself
eraToCongressRangeOfVintageYear(era) ==
  IF era > 2002 THEN [start |-> 0, end |-> 0]
  ELSE LET start == ((era - 1789) \div 2) + 1
       IN  [start |-> start, end |-> start + 4]

eraToCongressRange(era) ==
  IF era > 2002 THEN [start |-> 0, end |-> 0]
  ELSE LET start == (((era + 1) - 1789) \div 2) + 1
       IN  [start |-> start, end |-> start + 4]

\* the table without its newest vintage
getDistrictEraNo2022(year) ==
  IF year >= 2013 THEN 2012
  ELSE IF year >= 2003 THEN 2002
  ELSE IF year >= 1993 THEN 1992
  ELSE IF year >= 1983 THEN 1982
  ELSE IF year >= 1973 THEN 1972
  ELSE 1962

\* thresholds compared with > instead of >=
getDistrictEraStrict(year) ==
  IF year > 2023 THEN 2022
  ELSE IF year > 2013 THEN 2012
  ELSE IF year > 2003 THEN 2002
  ELSE IF year > 1993 THEN 1992
  ELSE IF year > 1983 THEN 1982
  ELSE IF year > 1973 THEN 1972
  ELSE 1962

getDistrictEra(year) ==
  IF year >= 2023 THEN 2022
  ELSE IF year >= 2013 THEN 2012
  ELSE IF year >= 2003 THEN 2002
  ELSE IF year >= 1993 THEN 1992
  ELSE IF year >= 1983 THEN 1982
  ELSE IF year >= 1973 THEN 1972
  ELSE IF year >= 1963 THEN 1962
  ELSE 1962

----------------------------------------------------------------------------
(* URLs and the records of the geometry source *)

NoUrl == [kind |-> "", state |-> "", label |-> "", era |-> 0, lo |-> 0, hi |-> 0]

\* /districts/cds/${era}/${state}-${label}/shape.geojson
CdsUrl(era, code) ==
  [kind |-> "cds", state |-> code[1], label |-> code[2], era |-> era, lo |-> 0, hi |-> 0]

\* /districts/states/${state}/shape.geojson
StateUrl(st) ==
  [kind |-> "states", state |-> st, label |-> "", era |-> 0, lo |-> 0, hi |-> 0]

\* /districts/1789-2012/${stateName}_${start}_to_${end}.geojson
BulkUrl(stateName, range) ==
  [kind |-> "1789-2012", state |-> stateName, label |-> "", era |-> 0,
   lo |-> range.start, hi |-> range.end]

NoGeometry == [type |-> "null", src |-> NoUrl, label |-> "", coordinates |-> <<>>]

\* what a URL can hold: a plain record (spans exactly 30 x 30), one too wide,
\* one too tall, one without coordinates, one without any geometry
Kinds == {"plain", "wide", "tall", "empty", "nogeom"}

Ring(kind) ==
  CASE kind = "wide" -> << <<0, 0>>, <<SpanLimit + 1, SpanLimit>> >>
    [] kind = "tall" -> << <<0, 0>>, <<SpanLimit, SpanLimit + 1>> >>
    [] kind = "empty" -> << >>
    [] OTHER -> << <<0, 0>>, <<SpanLimit, SpanLimit>> >>

GeometryOf(url, label, kind) ==
  IF kind = "nogeom" THEN NoGeometry
  ELSE [type |-> "Polygon", src |-> url, label |-> label,
        coordinates |-> IF kind = "empty" THEN << >> ELSE << Ring(kind) >>]

NoBody == [type |-> "null", geometry |-> NoGeometry, features |-> <<>>]

\* district labels of the features of a state's bulk collection
BulkLabels(stateName) ==
  IF stateName = "New_York" THEN <<"1", "2">> ELSE <<"0">>

\* the JSON body a URL answers with
BodyOf(url, kind) ==
  CASE url.kind = "1789-2012" ->
         [type |-> "FeatureCollection", geometry |-> NoGeometry,
          features |-> IF kind = "empty" THEN <<>>
                       ELSE [i \in DOMAIN BulkLabels(url.state) |->
                               [district |-> BulkLabels(url.state)[i],
                                geometry |-> GeometryOf(url, BulkLabels(url.state)[i], kind)]]]
    [] url.kind = "states" ->
         [type |-> "Feature", geometry |-> GeometryOf(url, "", kind), features |-> <<>>]
    [] url.kind = "cds" /\ url.era >= 2012 ->
         \* a bare geometry object
         IF kind = "nogeom" THEN NoBody
         ELSE [type |-> "Polygon", geometry |-> GeometryOf(url, "", kind), features |-> <<>>]
    [] url.kind = "cds" /\ url.era >= 1992 ->
         [type |-> "Feature", geometry |-> GeometryOf(url, "", kind), features |-> <<>>]
    [] OTHER ->
         [type |-> "FeatureCollection", geometry |-> NoGeometry,
          features |-> IF kind = "nogeom" THEN <<>>
                       ELSE << [district |-> "", geometry |-> GeometryOf(url, "", kind)] >>]

\* a settled fetch: rejected / not ok / unparsable, or ok with the URL's body
Outcome(ok, kind) == [ok |-> ok, kind |-> kind]

\* the outcomes the source can give for url: a URL keeps the record it has
\* answered with once, and at most MaxOdd URLs hold a record that is not plain
Outcomes(url) ==
  {Outcome(FALSE, "plain")} \cup
  { Outcome(TRUE, k) : k \in
      IF Has(served, url) THEN {served[url]}
      ELSE IF Cardinality({u \in DOMAIN served : served[u] # "plain"}) < MaxOdd
           THEN Kinds ELSE {"plain"} }

Serve(url, o) == IF o.ok THEN Put(served, url, o.kind) ELSE served

----------------------------------------------------------------------------
(* calculateBoundingBox *)

\* flatten(): every [number, number] found in the nested coordinate arrays
RECURSIVE FlattenRings(_)
FlattenRings(rings) ==
  IF rings = <<>> THEN <<>> ELSE Head(rings) \o FlattenRings(Tail(rings))

NoBox == [nil |-> TRUE, minLon |-> 0, maxLon |-> 0, minLat |-> 0, maxLat |-> 0]

calculateBoundingBox(geometry) ==
  IF geometry.type = "null" THEN NoBox
  ELSE LET coords == FlattenRings(geometry.coordinates)
           lons == {coords[i][1] : i \in DOMAIN coords}
           lats == {coords[i][2] : i \in DOMAIN coords}
       IN  IF Len(coords) = 0 THEN NoBox
           ELSE [nil |-> FALSE, minLon |-> SetMin(lons), maxLon |-> SetMax(lons),
                 minLat |-> SetMin(lats), maxLat |-> SetMax(lats)]

\* a guard that rejects a span equal to the threshold too
ImplausibleFromThreshold(bbox) ==
  (bbox.maxLon - bbox.minLon >= SpanLimit) \/ (bbox.maxLat - bbox.minLat >= SpanLimit)

\* lonSpan > 30 || latSpan > 30
Implausible(bbox) ==
  (bbox.maxLon - bbox.minLon > SpanLimit) \/ (bbox.maxLat - bbox.minLat > SpanLimit)

----------------------------------------------------------------------------
(* fetchDistrictShape: the frame of one call and its steps *)

NoCode == <<"", "">>

NoFeature ==
  [type |-> "null", geometry |-> NoGeometry, key |-> NoCode, party |-> "",
   state |-> "", district |-> "", bioguide |-> "", era |-> 0]

\* the returned feature; name and wikipedia follow the term like bioguide
Feature(term, key, geometry, era) ==
  [type |-> "Feature", geometry |-> geometry, key |-> key, party |-> term.party,
   state |-> term.state,
   district |-> IF IsAtLarge(term.district) THEN "AL" ELSE StringOf(term.district),
   bioguide |-> term.bioguide, era |-> era]

NoTerm == Term("", "", "", "", Absent, 0, 0)

\* pc: "idle" (no call), the pending fetch ("bulk", "cds", "fallback",
\* "fallback2022", "state", "substitute"), or "done".
\* via, fetches and prior are history: how the result was obtained, the URLs
\* fetched in order, and whether the district had been resolved before.
IdleFrame ==
  [pc |-> "idle", term |-> NoTerm, year |-> 0, era |-> 0, ci |-> 0, fi |-> 0,
   awaiting |-> NoUrl, geojson |-> NoBody, usedCode |-> NoCode, usedEra |-> 0,
   result |-> NoFeature, via |-> "", fetches |-> <<>>, prior |-> FALSE]

candidates(term) ==
  IF IsAtLarge(term.district)
  THEN << <<term.state, "AL">>, <<term.state, "0">> >>
  ELSE << <<term.state, StringOf(term.district)>> >>

\* targets of the bulk search
targets(term) ==
  IF IsAtLarge(term.district) THEN <<"AL", "0">> ELSE << StringOf(term.district) >>

KnownEras == <<2012, 2002, 1992, 1982, 1972, 1962>>

fallbackEras(era) == SelectSeq(KnownEras, LAMBDA e : e # era)

fallbackCandidates(term) ==
  << <<term.state, "1">>, <<term.state, "AL">>, <<term.state, "0">> >>

\* a context is the frame with the two caches it reads and writes
Ctx(r, sc, cc) == [r |-> r, sc |-> sc, cc |-> cc]

\* a NotFound that is thrown instead of returned
ReturnOrThrow(ctx, feature, via) ==
  [ctx EXCEPT !.r.pc = IF feature.type = "null" THEN "thrown" ELSE "done",
              !.r.result = feature, !.r.via = via, !.r.awaiting = NoUrl]

Return(ctx, feature, via) ==
  [ctx EXCEPT !.r.pc = "done", !.r.result = feature, !.r.via = via,
              !.r.awaiting = NoUrl]

Fetch(ctx, pc, url) ==
  [ctx EXCEPT !.r.pc = pc, !.r.awaiting = url,
              !.r.fetches = Append(@, [stage |-> pc, url |-> url])]

\* stateGeo?.type === 'Feature' ? stateGeo.geometry : stateGeo?.geometry || stateGeo
\* (a bare geometry body is held in the body's geometry field)
StateGeom(body) == body.geometry

\* lines 604-611: the geometry of a per-district body
NormalizeGeometry(geojson) ==
  IF geojson.type = "Feature" THEN geojson.geometry
  ELSE IF geojson.type = "FeatureCollection"
       THEN IF Len(geojson.features) > 0 THEN geojson.features[1].geometry
            ELSE NoGeometry
       ELSE geojson.geometry

\* lines 604-666: a per-district body was retrieved
Validate(ctx) ==
  LET r == ctx.r
      geometry == NormalizeGeometry(r.geojson)
      bbox == calculateBoundingBox(geometry)
  IN  IF geometry.type = "null" THEN Return(ctx, NoFeature, "nogeometry")
      ELSE IF ~bbox.nil /\ Implausible(bbox)
      THEN Fetch(ctx, "substitute", StateUrl(r.term.state))
      ELSE Return([ctx EXCEPT !.sc = Put(@, <<r.usedEra, r.usedCode>>, geometry)],
                  Feature(r.term, r.usedCode, geometry, r.era), "record")

\* lines 575-602 (entry): nothing retrieved -> whole-state record
AfterChain(ctx) ==
  LET r == ctx.r
  IN  IF r.geojson.type = "null" \/ r.usedCode = NoCode \/ r.usedEra = 0
      THEN Fetch(ctx, "state", StateUrl(r.term.state))
      ELSE Validate(ctx)

\* lines 560-573 (entry)
AfterFallback(ctx) ==
  LET r == ctx.r
  IN  IF r.geojson.type = "null" /\ r.era >= 2022
         /\ r.term.district # Absent /\ r.term.district > 1
      THEN Fetch([ctx EXCEPT !.r.ci = 1], "fallback2022",
                 CdsUrl(2012, fallbackCandidates(r.term)[1]))
      ELSE AfterChain(ctx)

\* lines 543-558 (entry)
AfterPrimary(ctx) ==
  LET r == ctx.r
  IN  IF r.geojson.type = "null"
      THEN Fetch([ctx EXCEPT !.r.fi = 1, !.r.ci = 1], "fallback",
                 CdsUrl(fallbackEras(r.era)[1], candidates(r.term)[1]))
      ELSE AfterFallback(ctx)

\* a cache hit that returns the geometry annotated with no term
RECURSIVE CacheLookupUnannotated(_, _)
CacheLookupUnannotated(ctx, i) ==
  LET r == ctx.r
      cands == candidates(r.term)
  IN  IF i > Len(cands)
      THEN Fetch([ctx EXCEPT !.r.ci = 1], "cds", CdsUrl(r.era, cands[1]))
      ELSE IF Has(ctx.sc, <<r.era, cands[i]>>)
      THEN Return(ctx, Feature(NoTerm, cands[i], ctx.sc[<<r.era, cands[i]>>], r.era),
                  "cache")
      ELSE CacheLookupUnannotated(ctx, i + 1)

\* lines 503-541 (entry): cache lookup over the candidates, then the first
\* per-district fetch
RECURSIVE CacheLookup(_, _)
CacheLookup(ctx, i) ==
  LET r == ctx.r
      cands == candidates(r.term)
  IN  IF i > Len(cands)
      THEN Fetch([ctx EXCEPT !.r.ci = 1], "cds", CdsUrl(r.era, cands[1]))
      ELSE IF Has(ctx.sc, <<r.era, cands[i]>>)
      THEN Return(ctx, Feature(r.term, cands[i], ctx.sc[<<r.era, cands[i]>>], r.era),
                  "cache")
      ELSE CacheLookup(ctx, i + 1)

AfterBulk(ctx) == CacheLookup(ctx, 1)

\* stateColl.features.find(f => targets.includes(String(f?.properties?.district)))
BulkFind(coll, tg) ==
  LET hits == {i \in DOMAIN coll.features :
                 \E j \in DOMAIN tg : coll.features[i].district = tg[j]}
  IN  IF hits = {} THEN [district |-> "", geometry |-> NoGeometry]
      ELSE coll.features[SetMin(hits)]

\* lines 478-500: search the state's collection
BulkSearch(ctx, stateColl) ==
  LET r == ctx.r
      feat == BulkFind(stateColl, targets(r.term))
      usedCode == <<r.term.state, targets(r.term)[1]>>
      cacheKey == <<r.era, usedCode>>
  IN  IF stateColl.type # "null" /\ feat.geometry.type # "null"
      THEN Return([ctx EXCEPT !.sc = IF Has(@, cacheKey) THEN @
                                     ELSE Put(@, cacheKey, feat.geometry)],
                  Feature(r.term, usedCode, feat.geometry, r.era), "bulk")
      ELSE AfterBulk(ctx)

\* lines 469-477 and load1789StateCollection lines 408-416: from the call to
\* the first network await (or the return)
fetchDistrictShape(term, selectedYear, prior, sc, cc) ==
  LET era == getDistrictEra(selectedYear)
      r == [IdleFrame EXCEPT !.term = term, !.year = selectedYear, !.era = era,
                             !.prior = prior]
      ctx == Ctx(r, sc, cc)
      stateName == abbrToStateName(term.state)
      range == eraToCongressRange(era)
      key == <<era, term.state>>
  IN  IF term.chamber = "Senate" THEN Return(ctx, NoFeature, "senate")
      ELSE IF term.chamber = "House" /\ term.district = Absent
      THEN Return(ctx, NoFeature, "nodistrict")
      ELSE IF era <= 2002
      THEN IF stateName = "" \/ range.start = 0 THEN AfterBulk(ctx)
           ELSE IF Has(cc, key) THEN BulkSearch(ctx, cc[key])
           ELSE Fetch(ctx, "bulk", BulkUrl(stateName, range))
      ELSE AfterBulk(ctx)

\* the pending fetch of frame ctx.r settles with outcome o
Settle(ctx, o) ==
  LET r == ctx.r
      body == IF o.ok THEN BodyOf(r.awaiting, o.kind) ELSE NoBody
      cands == candidates(r.term)
      fes == fallbackEras(r.era)
  IN  CASE r.pc = "bulk" ->
             \* load1789StateCollection lines 416-423
             IF o.ok
             THEN BulkSearch([ctx EXCEPT !.cc = Put(@, <<r.era, r.term.state>>, body)], body)
             ELSE AfterBulk(ctx)
        [] r.pc = "cds" ->
             \* lines 531-541
             IF o.ok
             THEN AfterPrimary([ctx EXCEPT !.r.geojson = body, !.r.usedCode = cands[r.ci],
                                           !.r.usedEra = r.era])
             ELSE IF r.ci < Len(cands)
             THEN Fetch([ctx EXCEPT !.r.ci = r.ci + 1], "cds", CdsUrl(r.era, cands[r.ci + 1]))
             ELSE AfterPrimary(ctx)
        [] r.pc = "fallback" ->
             \* lines 545-557
             IF o.ok
             THEN AfterFallback([ctx EXCEPT !.r.geojson = body, !.r.usedCode = cands[r.ci],
                                            !.r.usedEra = fes[r.fi]])
             ELSE IF r.ci < Len(cands)
             THEN Fetch([ctx EXCEPT !.r.ci = r.ci + 1], "fallback",
                        CdsUrl(fes[r.fi], cands[r.ci + 1]))
             ELSE IF r.fi < Len(fes)
             THEN Fetch([ctx EXCEPT !.r.fi = r.fi + 1, !.r.ci = 1], "fallback",
                        CdsUrl(fes[r.fi + 1], cands[1]))
             ELSE AfterFallback(ctx)
        [] r.pc = "fallback2022" ->
             \* lines 562-572
             IF o.ok
             THEN AfterChain([ctx EXCEPT !.r.geojson = body,
                                         !.r.usedCode = fallbackCandidates(r.term)[r.ci],
                                         !.r.usedEra = 2012])
             ELSE IF r.ci < Len(fallbackCandidates(r.term))
             THEN Fetch([ctx EXCEPT !.r.ci = r.ci + 1], "fallback2022",
                        CdsUrl(2012, fallbackCandidates(r.term)[r.ci + 1]))
             ELSE AfterChain(ctx)
        [] r.pc = "state" ->
             \* lines 577-601
             IF o.ok /\ StateGeom(body).type # "null"
             THEN Return([ctx EXCEPT !.sc = Put(@, <<r.era, cands[1]>>, StateGeom(body))],
                         Feature(r.term, cands[1], StateGeom(body), r.era), "state")
             ELSE Return(ctx, NoFeature, "exhausted")
        [] r.pc = "substitute" ->
             \* lines 623-647
             IF o.ok /\ StateGeom(body).type # "null"
             THEN Return([ctx EXCEPT !.sc = Put(@, <<r.usedEra, r.usedCode>>, StateGeom(body))],
                         Feature(r.term, r.usedCode, StateGeom(body), r.usedEra),
                         "substitute")
             ELSE Return(ctx, NoFeature, "implausible")
        [] OTHER -> ctx

----------------------------------------------------------------------------
(* fetchAllDistrictShapesForYear: the frame of one call and its steps *)

\* a dedup code that keeps district 0 and an absent district apart
DedupCodeSplit(t) ==
  <<t.state, IF t.district = Absent THEN "AL" ELSE StringOf(t.district)>>

\* lines 676-678: the dedup code of a term
DedupCode(t) ==
  LET did == IF t.district = Absent THEN 0 ELSE t.district
  IN  <<t.state, IF did = 0 THEN "AL" ELSE StringOf(did)>>

\* the dedup loop without its chamber test
uniqueTermsAnyChamber(terms) ==
  LET first == {i \in DOMAIN terms :
                  \A j \in 1..(i - 1) : DedupCode(terms[j]) # DedupCode(terms[i])}
  IN  SelectSeq([i \in DOMAIN terms |-> [t |-> terms[i], keep |-> i \in first]],
                LAMBDA e : e.keep)

\* lines 673-682: Array.from(byDistrict.values())
uniqueTerms(terms) ==
  LET first == {i \in DOMAIN terms :
                  /\ terms[i].chamber = "House"
                  /\ \A j \in 1..(i - 1) :
                       ~(terms[j].chamber = "House" /\ DedupCode(terms[j]) = DedupCode(terms[i]))}
  IN  SelectSeq([i \in DOMAIN terms |-> [t |-> terms[i], keep |-> i \in first]],
                LAMBDA e : e.keep)

\* a frame: st is "running" or "returned"; i is the loop index; batch holds
\* the frames of the fetchDistrictShape calls of the current batch; load is
\* the loadRealData call awaiting it (0: called directly); past is history:
\* the frames of the calls of the batches already settled, in order; terms is
\* history too: the roster the call was given; so is order: the indices (in
\* unique) of the calls that returned after a network wait, in the order in
\* which they returned
RunFrame(terms, year, load) ==
  [st |-> "running", year |-> year, terms |-> terms,
   unique |-> [k \in DOMAIN uniqueTerms(terms) |-> uniqueTerms(terms)[k].t],
   i |-> 0, batch |-> <<>>, results |-> <<>>, load |-> load, past |-> <<>>,
   order |-> <<>>]

Rc(run, sc, cc) == [run |-> run, sc |-> sc, cc |-> cc]

Min2(a, b) == IF a <= b THEN a ELSE b

\* every remaining term started at once, whatever CONCURRENCY is
RECURSIVE StartMembersAll(_, _)
StartMembersAll(rc, k) ==
  LET run == rc.run
  IN  IF k > Len(run.unique) THEN rc
      ELSE LET ctx == fetchDistrictShape(run.unique[k], run.year, FALSE, rc.sc, rc.cc)
           IN  StartMembersAll(Rc([run EXCEPT !.batch = Append(@, ctx.r)], ctx.sc, ctx.cc),
                               k + 1)

\* line 687: batch.map(t => fetchDistrictShape(t, selectedYear)), each call
\* running up to its first network await
RECURSIVE StartMembers(_, _)
StartMembers(rc, k) ==
  LET run == rc.run
  IN  IF k > Min2(run.i + CONCURRENCY, Len(run.unique)) THEN rc
      ELSE LET ctx == fetchDistrictShape(run.unique[k], run.year, FALSE, rc.sc, rc.cc)
           IN  StartMembers(Rc([run EXCEPT !.batch = Append(@, ctx.r)], ctx.sc, ctx.cc),
                            k + 1)

\* one NotFound empties the whole batch
NonNullOrNothing(frames) ==
  IF \E k \in DOMAIN frames : frames[k].result.type = "null" THEN <<>>
  ELSE [k \in DOMAIN frames |-> frames[k].result]

\* the non-null results pushed last call first
NonNullLastFirst(frames) ==
  LET kept == SelectSeq(frames, LAMBDA r : r.result.type # "null")
  IN  [k \in DOMAIN kept |-> kept[Len(kept) + 1 - k].result]

\* line 688: for (const r of batchResults) if (r) results.push(r)
NonNull(frames) ==
  LET kept == SelectSeq(frames, LAMBDA r : r.result.type # "null")
  IN  [k \in DOMAIN kept |-> kept[k].result]

\* lines 685-694: the loop head starts the batch at index i or returns the
\* collection; when every call of a batch has returned, Promise.all resolves,
\* the non-null results are pushed in batch order and the loop goes on
RECURSIVE LoopHead(_)
RECURSIVE AwaitBatch(_)
LoopHead(rc) ==
  IF rc.run.i < Len(rc.run.unique)
  THEN AwaitBatch(StartMembers(rc, rc.run.i + 1))
  ELSE [rc EXCEPT !.run.st = "returned"]

AwaitBatch(rc) ==
  LET run == rc.run
  IN  IF \A k \in DOMAIN run.batch : run.batch[k].pc = "done"
      THEN LoopHead([rc EXCEPT !.run.results = @ \o NonNull(run.batch),
                               !.run.i = @ + CONCURRENCY,
                               !.run.past = @ \o run.batch,
                               !.run.batch = <<>>])
      ELSE rc

fetchAllDistrictShapesForYear(terms, selectedYear, load, sc, cc) ==
  LoopHead(Rc(RunFrame(terms, selectedYear, load), sc, cc))

\* the pending fetch of call k of the batch settles with outcome o
SettleMember(run, k, o, sc, cc) ==
  LET ctx == Settle(Ctx(run.batch[k], sc, cc), o)
  IN  AwaitBatch(Rc([run EXCEPT !.batch[k] = ctx.r,
                                !.order = IF ctx.r.pc = "done" THEN Append(@, run.i + k)
                                          ELSE @],
                    ctx.sc, ctx.cc))

----------------------------------------------------------------------------
(* CongressionalDataLoader *)

\* the two legislator files (historical, then current), term dates as years
LegislatorRecords ==
  << [bioguide |-> "a", full |-> "A", terms |->
        << [type |-> "rep", start |-> 2013, end |-> 2018, state |-> "NY",
            district |-> 1, party |-> "Democrat"] >>],
     [bioguide |-> "e", full |-> "E", terms |->
        << [type |-> "sen", start |-> 2009, end |-> 2026, state |-> "NY",
            district |-> Absent, party |-> "Democrat"] >>],
     [bioguide |-> "c", full |-> "C", terms |->
        << [type |-> "rep", start |-> 2019, end |-> 2026, state |-> "WY",
            district |-> 0, party |-> "" ] >> ] >>

RECURSIVE flattenLegislatorTerms(_)
flattenLegislatorTerms(legislators) ==
  IF legislators = <<>> THEN <<>>
  ELSE LET legislator == Head(legislators)
       IN  [k \in DOMAIN legislator.terms |->
              LET term == legislator.terms[k]
              IN  Term(legislator.bioguide,
                       IF term.party = "" THEN "Unknown" ELSE term.party,
                       IF term.type = "rep" THEN "House" ELSE "Senate",
                       term.state, term.district, term.start, term.end)]
           \o flattenLegislatorTerms(Tail(legislators))

\* getMembersForYear line 101
ActiveIn(allTerms, year) ==
  SelectSeq(allTerms, LAMBDA term : year >= term.startYear /\ year <= term.endYear)

----------------------------------------------------------------------------
(* loadRealData *)

\* a call that captures the counter's value before the increment
LoadFrameStaleId(loadId, year) ==
  [pc |-> "roster", loadId |-> loadId - 1, year |-> year, run |-> 0, fate |-> "",
   overtaken |-> FALSE, sawLayer |-> 0]

\* pc: "roster" (awaiting getMembersForYear), "shapes" (awaiting
\* fetchAllDistrictShapesForYear), "done".  run: its frame in runs.
\* fate, overtaken and sawLayer are history: how the call ended, whether a
\* newer call was started before it ended, and whose collection the layer
\* showed when it ended.
LoadFrame(loadId, year) ==
  [pc |-> "roster", loadId |-> loadId, year |-> year, run |-> 0, fate |-> "",
   overtaken |-> FALSE, sawLayer |-> 0]

\* lines 131-143: the click lookup, first House term per key
ByKey(terms) ==
  LET keys(t) ==
        LET did == IF t.district = Absent THEN 0 ELSE t.district
        IN  {<<t.state, StringOf(did)>>} \cup
            (IF did = 0 THEN {<<t.state, "0">>, <<t.state, "AL">>} ELSE {})
      house == {i \in DOMAIN terms : terms[i].chamber = "House"}
      all == UNION {keys(terms[i]) : i \in house}
  IN  [k \in all |-> terms[SetMin({i \in house : k \in keys(terms[i])})]]

\* the shared state a continuation reads and writes
World ==
  [sc |-> shapeCache, cc |-> stateEraCollectionCache, runs |-> runs, loads |-> loads,
   loading |-> isLoadingData, count |-> districtsCount, byKey |-> termsByKeyRef,
   layer |-> layer]

\* lines 233-235: finally
FinishLoad(w, l, fate) ==
  [w EXCEPT !.loads[l].pc = "done", !.loads[l].fate = fate,
            !.loads[l].sawLayer = w.layer.by, !.loading = FALSE]

\* the redraw without the second checkpoint
AfterShapesUnchecked(w, l, counter) ==
  LET L == w.loads[l]
      districts == w.runs[L.run].results
  IN  FinishLoad([w EXCEPT !.layer = [by |-> L.loadId, year |-> L.year,
                                      features |-> districts],
                           !.count = Len(districts)],
                 l, "rendered")

\* lines 146-230: second checkpoint, redraw of the districts layer.
\* gRef and pathRef are set before the first loadRealData call is made.
AfterShapes(w, l, counter) ==
  LET L == w.loads[l]
      districts == w.runs[L.run].results
  IN  IF L.loadId # counter THEN FinishLoad(w, l, "stale")
      ELSE FinishLoad([w EXCEPT !.layer = [by |-> L.loadId, year |-> L.year,
                                           features |-> districts],
                                !.count = Len(districts)],
                      l, "rendered")

\* the continuation after the roster lookup without the first checkpoint
AfterRosterUnchecked(w, l, terms, counter) ==
  LET L == w.loads[l]
      rc == fetchAllDistrictShapesForYear(terms, L.year, l, w.sc, w.cc)
      w1 == [w EXCEPT !.byKey = ByKey(terms), !.sc = rc.sc, !.cc = rc.cc,
                      !.runs = Append(@, rc.run),
                      !.loads[l].run = Len(w.runs) + 1, !.loads[l].pc = "shapes"]
  IN  IF rc.run.st = "returned" THEN AfterShapes(w1, l, counter)
      ELSE w1

\* lines 129-145: first checkpoint, click lookup, call of
\* fetchAllDistrictShapesForYear
AfterRoster(w, l, terms, counter) ==
  LET L == w.loads[l]
      rc == fetchAllDistrictShapesForYear(terms, L.year, l, w.sc, w.cc)
      w1 == [w EXCEPT !.byKey = ByKey(terms), !.sc = rc.sc, !.cc = rc.cc,
                      !.runs = Append(@, rc.run),
                      !.loads[l].run = Len(w.runs) + 1, !.loads[l].pc = "shapes"]
  IN  IF L.loadId # counter THEN FinishLoad(w, l, "stale")
      ELSE IF rc.run.st = "returned" THEN AfterShapes(w1, l, counter)
      ELSE w1

Publish(w) ==
  /\ shapeCache' = w.sc
  /\ stateEraCollectionCache' = w.cc
  /\ runs' = w.runs
  /\ loads' = w.loads
  /\ isLoadingData' = w.loading
  /\ districtsCount' = w.count
  /\ termsByKeyRef' = w.byKey
  /\ layer' = w.layer

\* loadRealData(year) is called (year change, or map base loaded)
loadRealData(year) ==
  /\ Len(loads) < MaxLoads
  /\ LET loadId == loadCounterRef + 1
         l == Len(loads) + 1
         w == [World EXCEPT
                 !.loads = Append([k \in DOMAIN loads |->
                                     [loads[k] EXCEPT !.overtaken = @ \/ loads[k].pc # "done"]],
                                  LoadFrame(loadId, year)),
                 !.loading = TRUE]
     IN  /\ loadCounterRef' = loadId
         /\ Publish(IF dataLoader.isLoaded
                    THEN AfterRoster(w, l, ActiveIn(dataLoader.allTerms, year), loadId)
                    ELSE w)
  /\ UNCHANGED <<served, probe, ncalls, resolved, dataLoader>>

\* loadAndProcessData lines 49-66 of a call waiting for the roster: the two
\* file fetches settle, both ok or not
RosterSettles(l, ok) ==
  /\ l \in DOMAIN loads
  /\ loads[l].pc = "roster"
  /\ LET dl == IF ok THEN [isLoaded |-> TRUE,
                            allTerms |-> flattenLegislatorTerms(LegislatorRecords)]
               ELSE [dataLoader EXCEPT !.allTerms = <<>>]
     IN  /\ dataLoader' = dl
         /\ Publish(AfterRoster(World, l, ActiveIn(dl.allTerms, loads[l].year),
                                loadCounterRef))
  /\ UNCHANGED <<served, probe, ncalls, resolved, loadCounterRef>>

\* the fetch that call k of the current batch of run c is waiting for settles
RunFetchSettles(c, k) ==
  /\ c \in DOMAIN runs
  /\ k \in DOMAIN runs[c].batch
  /\ runs[c].batch[k].pc # "done"
  /\ \E o \in Outcomes(runs[c].batch[k].awaiting) :
       LET rc == SettleMember(runs[c], k, o, shapeCache, stateEraCollectionCache)
           w == [World EXCEPT !.sc = rc.sc, !.cc = rc.cc, !.runs[c] = rc.run]
       IN  /\ served' = Serve(runs[c].batch[k].awaiting, o)
           /\ Publish(IF rc.run.st = "returned" /\ rc.run.load # 0
                      THEN AfterShapes(w, rc.run.load, loadCounterRef)
                      ELSE w)
  /\ UNCHANGED <<probe, ncalls, resolved, loadCounterRef, dataLoader>>

\* fetchAllDistrictShapesForYear(terms, selectedYear) is called directly,
\* once the previous call has returned
CallFetchAll(terms, selectedYear) ==
  /\ Len(runs) < MaxRuns
  /\ \A c \in DOMAIN runs : runs[c].st = "returned"
  /\ LET rc == fetchAllDistrictShapesForYear(terms, selectedYear, 0, shapeCache,
                                             stateEraCollectionCache)
     IN  /\ runs' = Append(runs, rc.run)
         /\ shapeCache' = rc.sc
         /\ stateEraCollectionCache' = rc.cc
  /\ UNCHANGED <<served, probe, ncalls, resolved, loads, loadCounterRef,
                 isLoadingData, districtsCount, termsByKeyRef, layer, dataLoader>>

----------------------------------------------------------------------------
(* Direct calls of fetchDistrictShape, one after the other *)

ProbeTerms ==
  { Term("a", "Democrat", "House", "NY", 1, 2013, 2018),
    Term("b", "Republican", "House", "NY", 2, 2013, 2026),
    Term("c", "Republican", "House", "WY", 0, 2017, 2026),
    Term("d", "Democrat", "House", "WY", Absent, 1993, 1996),
    Term("e", "Democrat", "Senate", "NY", Absent, 2009, 2026),
    Term("f", "Independent", "House", "XX", 1, 1993, 1996) }

Init ==
  /\ shapeCache = EmptyMap
  /\ stateEraCollectionCache = EmptyMap
  /\ served = EmptyMap
  /\ probe = IdleFrame
  /\ ncalls = 0
  /\ resolved = {}
  /\ runs = <<>>
  /\ loads = <<>>
  /\ loadCounterRef = 0
  /\ isLoadingData = FALSE
  /\ districtsCount = 0
  /\ termsByKeyRef = EmptyMap
  /\ layer = [by |-> 0, year |-> 0, features |-> <<>>]
  /\ dataLoader = [isLoaded |-> FALSE, allTerms |-> <<>>]

Resolved(r) ==
  IF r.pc = "done" /\ r.result.type # "null"
  THEN {<<r.era, r.term.state, r.term.district>>} ELSE {}

UiUnchanged ==
  UNCHANGED <<loads, loadCounterRef, isLoadingData, districtsCount, termsByKeyRef,
              layer, dataLoader>>

\* fetchDistrictShape(term, selectedYear) is called
CallFetchDistrictShape(term, selectedYear) ==
  /\ probe.pc \in {"idle", "done"}
  /\ ncalls < MaxCalls
  /\ LET prior == <<getDistrictEra(selectedYear), term.state, term.district>> \in resolved
         ctx == fetchDistrictShape(term, selectedYear, prior, shapeCache,
                                   stateEraCollectionCache)
     IN  /\ probe' = ctx.r
         /\ shapeCache' = ctx.sc
         /\ stateEraCollectionCache' = ctx.cc
         /\ resolved' = resolved \cup Resolved(ctx.r)
  /\ ncalls' = ncalls + 1
  /\ UNCHANGED <<served, runs>>
  /\ UiUnchanged

\* the fetch the call is waiting for settles
ProbeFetchSettles ==
  /\ probe.pc \notin {"idle", "done"}
  /\ \E o \in Outcomes(probe.awaiting) :
       LET ctx == Settle(Ctx(probe, shapeCache, stateEraCollectionCache), o)
       IN  /\ probe' = ctx.r
           /\ shapeCache' = ctx.sc
           /\ stateEraCollectionCache' = ctx.cc
           /\ resolved' = resolved \cup Resolved(ctx.r)
           /\ served' = Serve(probe.awaiting, o)
  /\ UNCHANGED <<ncalls, runs>>
  /\ UiUnchanged

Next ==
  \/ \E term \in ProbeTerms, y \in Years : CallFetchDistrictShape(term, y)
  \/ ProbeFetchSettles

Spec == Init /\ [][Next]_vars

----------------------------------------------------------------------------
(* Direct calls of fetchAllDistrictShapesForYear *)

T_a == Term("a", "Democrat", "House", "NY", 1, 2013, 2018)
T_a2 == Term("g", "Republican", "House", "NY", 1, 2013, 2018)
T_c == Term("c", "Republican", "House", "WY", 0, 2017, 2026)
T_d == Term("d", "Democrat", "House", "WY", Absent, 1993, 1996)
T_e == Term("e", "Democrat", "Senate", "NY", Absent, 2009, 2026)
T_f == Term("f", "Independent", "House", "XX", 1, 1993, 1996)

Rosters ==
  { <<T_a, T_e, T_c, T_a2>>,
    <<T_d, T_c, T_a>>,
    <<T_f, T_e, T_d>>,
    <<>> }

BatchYears == {1995, 2024}

NextBatch ==
  \/ \E terms \in Rosters, y \in BatchYears : CallFetchAll(terms, y)
  \/ \E c \in DOMAIN runs, k \in 1..CONCURRENCY : RunFetchSettles(c, k)

SpecBatch == Init /\ [][NextBatch]_vars

\* rosters with one district to fetch among an unknown state code, a Senate
\* term, a House term without district and a duplicate
SmallRosters ==
  { <<T_f, T_e, T_d, T_f>>,
    <<T_d, T_c, T_e>>,
    <<T_a2, T_a>>,
    <<>> }

NextSmallBatch ==
  \/ \E terms \in SmallRosters, y \in BatchYears : CallFetchAll(terms, y)
  \/ \E c \in DOMAIN runs, k \in 1..CONCURRENCY : RunFetchSettles(c, k)

\* every pending fetch eventually settles
SpecBatchFair ==
  /\ Init
  /\ [][NextSmallBatch]_vars
  /\ WF_vars(\E c \in 1..MaxRuns, k \in 1..CONCURRENCY : RunFetchSettles(c, k))

NotFound(r) == r.result.type = "null"

\* every fetch the call issued failed, the whole-state one included
EveryStrategyFailed(r) == r.pc = "done" /\ r.via = "exhausted"

\* C6: the returned collection holds, in order, exactly the features of the
\* districts whose resolution did not end NotFound, each as its own
\* resolution returned it and for its own term; a district that failed is
\* absent and removes or alters no other feature.
C6_PartialFailure ==
  \A c \in DOMAIN runs :
    runs[c].st = "returned" =>
      LET run == runs[c]
          found == {k \in DOMAIN run.past : ~NotFound(run.past[k])}
      IN  /\ Len(run.past) = Len(run.unique)
          /\ \A k \in DOMAIN run.past : run.past[k].term = run.unique[k]
          /\ Len(run.results) = Cardinality(found)
          /\ \A k \in found :
                \E j \in DOMAIN run.results :
                  /\ run.results[j] = run.past[k].result
                  /\ run.results[j].bioguide = run.unique[k].bioguide
                  /\ j = Cardinality({h \in found : h <= k})

\* C6 witness: a returned call with two districts, every strategy failed for
\* one of them (eight failed fetches) and the other one has its feature
C6_Witness ==
  \E c \in DOMAIN runs :
    /\ runs[c].st = "returned"
    /\ Len(runs[c].unique) = 2
    /\ \E k \in DOMAIN runs[c].past :
         /\ EveryStrategyFailed(runs[c].past[k])
         /\ Len(runs[c].past[k].fetches) >= 8
    /\ Len(runs[c].results) = 1

\* C8: every fetchAllDistrictShapesForYear call returns its collection, if
\* every pending fetch eventually settles.
C8_AlwaysReturns ==
  \A c \in 1..MaxRuns :
    (c \in DOMAIN runs) ~> (c \in DOMAIN runs /\ runs[c].st = "returned")

\* C8 witness: a call returned for a roster with an unknown state code, a
\* Senate term and a House term without district, after failed fetches
C8_Witness ==
  \E c \in DOMAIN runs :
    /\ runs[c].st = "returned"
    /\ \E k \in DOMAIN runs[c].unique : runs[c].unique[k].state = "XX"
    /\ \E k \in DOMAIN runs[c].unique : runs[c].unique[k].district = Absent
    /\ \E k \in DOMAIN runs[c].past : EveryStrategyFailed(runs[c].past[k])
    /\ runs[c].results = <<>>

----------------------------------------------------------------------------
(* Overlapping loadRealData calls *)

NextLoad ==
  \/ \E y \in Years : loadRealData(y)
  \/ \E l \in DOMAIN loads, ok \in BOOLEAN : RosterSettles(l, ok)
  \/ \E c \in DOMAIN runs, k \in 1..CONCURRENCY : RunFetchSettles(c, k)

SpecLoad == Init /\ [][NextLoad]_vars

\* C3: a loadRealData call that a newer call overtook never redraws the
\* districts layer: its collection is never the rendered one.
C3_OvertakenNeverRenders ==
  \A l \in DOMAIN loads :
    loads[l].overtaken => (loads[l].fate # "rendered" /\ layer.by # loads[l].loadId)

\* C3 witness: the second call has rendered its collection, and the first
\* call, for another year, got its shapes only after that and was dropped
C3_Witness ==
  /\ Len(loads) = 2
  /\ loads[1].year # loads[2].year
  /\ loads[2].fate = "rendered"
  /\ loads[1].fate = "stale" /\ loads[1].run # 0
  /\ loads[1].sawLayer = loads[2].loadId
  /\ Len(runs[loads[1].run].results) > 0
  /\ layer.by = loads[2].loadId /\ layer.year = loads[2].year

----------------------------------------------------------------------------
(* Claims about one resolution and the shape cache (specification Spec) *)

Fetched(r) == {r.fetches[i].url : i \in DOMAIN r.fetches}

\* C1: once a district has been resolved for a vintage, a later call for the
\* same state, district and vintage issues no fetch at all.
C1_NoFetchOnceResolved == probe.prior => probe.fetches = <<>>

\* C2: a per-district record found only at a fallback vintage is cached under
\* the fallback vintage and under the requested vintage.
C2_FallbackCachedUnderBothVintages ==
  (probe.pc = "done" /\ probe.via = "record" /\ probe.usedEra # probe.era)
    => /\ Has(shapeCache, <<probe.usedEra, probe.usedCode>>)
       /\ Has(shapeCache, <<probe.era, probe.usedCode>>)
       /\ shapeCache[<<probe.usedEra, probe.usedCode>>] = probe.result.geometry
       /\ shapeCache[<<probe.era, probe.usedCode>>] = probe.result.geometry

SpansExceed(geometry) ==
  LET bbox == calculateBoundingBox(geometry)
  IN  ~bbox.nil /\ (bbox.maxLon - bbox.minLon > SpanLimit
                    \/ bbox.maxLat - bbox.minLat > SpanLimit)

\* C4: the feature returned for a numbered district never carries a geometry
\* whose longitude or latitude span exceeds the threshold, unless it is the
\* whole-state record's geometry.
C4_ImplausibleNeverReturned ==
  (probe.pc = "done" /\ probe.result.type # "null" /\ ~IsAtLarge(probe.term.district))
    => (~SpansExceed(probe.result.geometry) \/ probe.result.geometry.src.kind = "states")

C7_NullOnlyAfterEveryStrategy ==
  (probe.pc = "done" /\ probe.result.type = "null" /\ probe.term.chamber = "House"
     /\ probe.term.district # Absent /\ probe.via # "implausible")
    => /\ \A i \in DOMAIN candidates(probe.term), e \in {probe.era} \cup {KnownEras[j] : j \in DOMAIN KnownEras} :
            CdsUrl(e, candidates(probe.term)[i]) \in Fetched(probe)
       /\ StateUrl(probe.term.state) \in Fetched(probe)

FallbackFetches(r) == SelectSeq(r.fetches, LAMBDA f : f.stage = "fallback")

\* C9: every vintage requested by the older-vintage fallback is strictly
\* earlier than the requested vintage, and they are requested in descending order.
C9_FallbackEarlierDescending ==
  LET fb == FallbackFetches(probe)
  IN  /\ \A i \in DOMAIN fb : fb[i].url.era < probe.era
      /\ \A i, j \in DOMAIN fb : i < j => fb[i].url.era >= fb[j].url.era

\* C10: the whole-state record is requested as the last resort only for an
\* at-large district.
C10_StateFallbackOnlyAtLarge ==
  \A i \in DOMAIN probe.fetches :
    probe.fetches[i].stage = "state" => IsAtLarge(probe.term.district)

----------------------------------------------------------------------------
(* The order of the strategies (specification Spec) *)

StageRank(stage) ==
  CASE stage = "bulk" -> 1 [] stage = "cds" -> 2 [] stage = "fallback" -> 3
    [] stage = "fallback2022" -> 4 [] stage = "state" -> 5 [] OTHER -> 6

\* C11: a cache hit returns before any fetch is issued; the fetches of one
\* resolution follow the order bulk collection, requested vintage, older
\* vintages, whole state; and the fetch that yielded the returned record is
\* the last one issued.
C11_StrategyOrder ==
  /\ probe.via = "cache" => probe.fetches = <<>>
  /\ \A i, j \in DOMAIN probe.fetches :
       i < j => StageRank(probe.fetches[i].stage) <= StageRank(probe.fetches[j].stage)
  /\ (probe.pc = "done" /\ probe.via = "record")
       => probe.fetches[Len(probe.fetches)].url = CdsUrl(probe.usedEra, probe.usedCode)

----------------------------------------------------------------------------
(* getDistrictEra over a range of years *)

\* the years getDistrictEra is applied to
MinYear == 1950
MaxYear == 2035
EraYears == MinYear..MaxYear

InitEra ==
  /\ shapeCache = EmptyMap
  /\ stateEraCollectionCache = EmptyMap
  /\ served = EmptyMap
  /\ \E y \in EraYears : probe = [IdleFrame EXCEPT !.year = y]
  /\ ncalls = 0
  /\ resolved = {}
  /\ runs = <<>>
  /\ loads = <<>>
  /\ loadCounterRef = 0
  /\ isLoadingData = FALSE
  /\ districtsCount = 0
  /\ termsByKeyRef = EmptyMap
  /\ layer = [by |-> 0, year |-> 0, features |-> <<>>]
  /\ dataLoader = [isLoaded |-> FALSE, allTerms |-> <<>>]

\* const era = getDistrictEra(selectedYear): pc "era" once it is computed
ComputeEra ==
  /\ probe.pc = "idle"
  /\ probe.year \in EraYears
  /\ probe' = [probe EXCEPT !.pc = "era", !.era = getDistrictEra(probe.year)]
  /\ UNCHANGED <<shapeCache, stateEraCollectionCache, served, ncalls, resolved, runs>>
  /\ UiUnchanged

NextEra == ComputeEra

SpecEra == InitEra /\ [][NextEra]_vars

\* C12: every year maps to exactly one vintage, by the table: >= 2023 -> 2022,
\* 2013..2022 -> 2012, 2003..2012 -> 2002, 1993..2002 -> 1992,
\* 1983..1992 -> 1982, 1973..1982 -> 1972, <= 1972 -> 1962; no earlier year
\* maps to a later vintage.
C12_EraTable ==
  probe.pc = "era" =>
    LET y == probe.year
        e == probe.era
    IN  /\ e \in Eras
        /\ (y >= 2023) => e = 2022
        /\ (y >= 2013 /\ y <= 2022) => e = 2012
        /\ (y >= 2003 /\ y <= 2012) => e = 2002
        /\ (y >= 1993 /\ y <= 2002) => e = 1992
        /\ (y >= 1983 /\ y <= 1992) => e = 1982
        /\ (y >= 1973 /\ y <= 1982) => e = 1972
        /\ (y <= 1972) => e = 1962
        /\ \A y2 \in EraYears : y2 <= y => getDistrictEra(y2) <= e

\* C12 witness: the threshold year 2023 has been mapped
C12_Witness == probe.pc = "era" /\ probe.year = 2023 /\ probe.era = 2022

----------------------------------------------------------------------------
(* Candidate codes (specification Spec) *)

\* C13: a House term without district number or with district 0 is reported
\* not found only after both spellings, state-AL and state-0, were requested
\* at the requested vintage; for a numbered district every per-district
\* request is for the one code state-N.
C13_CandidateSpellings ==
  probe.term.chamber = "House" =>
    /\ (IsAtLarge(probe.term.district) /\ probe.pc = "done" /\ probe.result.type = "null")
         => /\ CdsUrl(probe.era, <<probe.term.state, "AL">>) \in Fetched(probe)
            /\ CdsUrl(probe.era, <<probe.term.state, "0">>) \in Fetched(probe)
    /\ ~IsAtLarge(probe.term.district)
         => \A i \in DOMAIN probe.fetches :
              probe.fetches[i].url.kind = "cds"
                => probe.fetches[i].url.label = StringOf(probe.term.district)

----------------------------------------------------------------------------
(* Senate terms: direct calls for a Senate term, and rosters holding one *)

NextSenate ==
  \/ \E y \in BatchYears : CallFetchDistrictShape(T_e, y)
  \/ \E terms \in Rosters, y \in BatchYears : CallFetchAll(terms, y)
  \/ \E c \in DOMAIN runs, k \in 1..CONCURRENCY : RunFetchSettles(c, k)

SpecSenate == Init /\ [][NextSenate]_vars

\* no Senate term among the terms a fetchAllDistrictShapesForYear call
\* resolves, and no feature of a Senate term of its roster in its collection
SenateFilteredOut ==
  \A c \in DOMAIN runs :
    LET run == runs[c]
    IN  /\ \A k \in DOMAIN run.unique : run.unique[k].chamber = "House"
        /\ \A k \in DOMAIN run.batch : run.batch[k].term.chamber = "House"
        /\ \A k \in DOMAIN run.past : run.past[k].term.chamber = "House"
        /\ \A j \in DOMAIN run.results, i \in DOMAIN run.terms :
             run.terms[i].chamber = "Senate"
               => run.results[j].bioguide # run.terms[i].bioguide

\* a fetchDistrictShape call for a Senate term returns null at once, with no
\* fetch pending or issued and both caches as they were
SenateCallIsNoOp ==
  (probe' # probe /\ probe'.term.chamber = "Senate")
    => /\ probe'.pc = "done"
       /\ probe'.result.type = "null"
       /\ probe'.fetches = <<>>
       /\ shapeCache' = shapeCache
       /\ stateEraCollectionCache' = stateEraCollectionCache
       /\ served' = served

\* C14: a Senate term causes no fetch, no cache write and no feature:
\* fetchAllDistrictShapesForYear never passes it on to a resolution and
\* fetchDistrictShape returns at once for it.
C14_SenateNeverResolved == []SenateFilteredOut /\ [][SenateCallIsNoOp]_vars

\* C14 witness: a direct call for a Senate term has returned, and a call for a
\* roster with a Senate term has returned a collection with a feature
C14_Witness ==
  /\ probe.pc = "done" /\ probe.term.chamber = "Senate"
  /\ \E c \in DOMAIN runs :
       /\ runs[c].st = "returned"
       /\ \E i \in DOMAIN runs[c].terms : runs[c].terms[i].chamber = "Senate"
       /\ runs[c].results # <<>>

----------------------------------------------------------------------------
(* Deduplication (specification SpecBatch) *)

\* the district code of a term: absent and 0 are the at-large district
CodeOf(t) ==
  <<t.state, IF t.district = Absent \/ t.district = 0 THEN "AL" ELSE StringOf(t.district)>>

\* indices of the House terms of a roster that are the first of their district
FirstOfDistrict(terms) ==
  {i \in DOMAIN terms :
     /\ terms[i].chamber = "House"
     /\ \A j \in DOMAIN terms :
          (j < i /\ terms[j].chamber = "House") => CodeOf(terms[j]) # CodeOf(terms[i])}

\* C15: the terms resolved are, in input order, the first House term of every
\* district code of the roster (district 0 and absent district of a state
\* being one code); every feature of the collection belongs to one of them
\* and no two features are for the same district.
C15_FirstTermPerDistrict ==
  \A c \in DOMAIN runs :
    LET run == runs[c]
        firsts == FirstOfDistrict(run.terms)
    IN  /\ Len(run.unique) = Cardinality(firsts)
        /\ \A i \in firsts :
             run.unique[Cardinality({h \in firsts : h <= i})] = run.terms[i]
        /\ \A j \in DOMAIN run.results :
             \E i \in firsts :
               /\ run.results[j].bioguide = run.terms[i].bioguide
               /\ run.results[j].party = run.terms[i].party
               /\ run.results[j].state = run.terms[i].state
        /\ \A j1, j2 \in DOMAIN run.results :
             (run.results[j1].state = run.results[j2].state
              /\ run.results[j1].district = run.results[j2].district) => j1 = j2

\* C15 witness: a returned call whose roster held two House terms of one
\* numbered district, the first of which has its feature in the collection
C15_Witness ==
  \E c \in DOMAIN runs :
    /\ runs[c].st = "returned"
    /\ \E i, j \in DOMAIN runs[c].terms :
         /\ i < j
         /\ runs[c].terms[i].chamber = "House" /\ runs[c].terms[j].chamber = "House"
         /\ CodeOf(runs[c].terms[i]) = CodeOf(runs[c].terms[j])
         /\ runs[c].terms[i].bioguide # runs[c].terms[j].bioguide
         /\ \E r \in DOMAIN runs[c].results :
              runs[c].results[r].bioguide = runs[c].terms[i].bioguide

----------------------------------------------------------------------------
(* A roster of more than CONCURRENCY districts *)

T_b == Term("b", "Republican", "House", "NY", 2, 2013, 2026)

\* House terms without district number, one per state: each is a district of
\* its own for the dedup loop, and its resolution returns without a fetch
FillerStates ==
  <<"AK", "AL", "AR", "AZ", "CA", "CO", "CT", "DE", "FL", "GA", "HI", "IA", "ID", "IL">>

Filler(i) == Term("h", "Unknown", "House", FillerStates[i], Absent, 2023, 2026)

\* seventeen districts: two with fetches in the first batch, one in the
\* second; the last term repeats the at-large district of the one before
BigRoster ==
  [i \in DOMAIN FillerStates |-> Filler(i)] \o <<T_a, T_b, T_c, T_d>>

BigYear == 2024

NextBig ==
  \/ CallFetchAll(BigRoster, BigYear)
  \/ \E c \in DOMAIN runs, k \in 1..CONCURRENCY : RunFetchSettles(c, k)

SpecBig == Init /\ [][NextBig]_vars

\* C16: the calls in flight are those of one batch of at most 16 consecutive
\* terms; every call of the earlier batches has settled and no call of a later
\* batch has been started.
C16_BatchesOfSixteen ==
  \A c \in DOMAIN runs :
    LET run == runs[c]
        n == Len(run.unique)
    IN  /\ Len(run.batch) <= 16
        /\ Cardinality({k \in DOMAIN run.batch : run.batch[k].pc # "done"}) <= 16
        /\ run.i % 16 = 0
        /\ \A k \in DOMAIN run.past : run.past[k].pc = "done" /\ run.past[k].term = run.unique[k]
        /\ run.st = "running"
             => /\ Len(run.past) = run.i
                /\ Len(run.batch) = (IF n - run.i < 16 THEN n - run.i ELSE 16)
                /\ \A k \in DOMAIN run.batch : run.batch[k].term = run.unique[run.i + k]
        /\ run.st = "returned" => run.batch = <<>> /\ Len(run.past) = n

\* C16 witness: the second batch is in flight, after the sixteen calls of the
\* first batch, two of which had fetches pending at the same time
C16_Witness ==
  \E c \in DOMAIN runs :
    /\ runs[c].st = "running"
    /\ runs[c].i = 16
    /\ Len(runs[c].past) = 16
    /\ Len(runs[c].past[15].fetches) > 1 /\ Len(runs[c].past[16].fetches) > 1
    /\ \E k \in DOMAIN runs[c].batch : runs[c].batch[k].pc # "done"

----------------------------------------------------------------------------
(* New York's 14th district *)

T_o == Term("o", "Democrat", "House", "NY", 14, 2019, 2026)

NextScenario ==
  \/ \E y \in Years : CallFetchDistrictShape(T_o, y)
  \/ ProbeFetchSettles

SpecScenario == Init /\ [][NextScenario]_vars

\* C17: the first call (empty cache) for a numbered district in a year from
\* 2023 on has vintage 2022, issues the request for the district's record at
\* vintage 2022 first and none for a bulk collection, and when that request
\* succeeds with a plausible geometry returns the feature with key state-N,
\* vintage 2022 and that geometry.
C17_Scenario ==
  (ncalls = 1 /\ probe.term.chamber = "House" /\ ~IsAtLarge(probe.term.district)
     /\ probe.year >= 2023)
    => LET url == CdsUrl(2022, <<probe.term.state, StringOf(probe.term.district)>>)
       IN  /\ probe.era = 2022
           /\ probe.fetches # <<>>
           /\ probe.fetches[1] = [stage |-> "cds", url |-> url]
           /\ \A i \in DOMAIN probe.fetches : probe.fetches[i].url.kind # "1789-2012"
           /\ (probe.pc = "done" /\ Len(probe.fetches) = 1
               /\ Has(served, url) /\ served[url] = "plain")
                => /\ probe.result.type = "Feature"
                   /\ probe.result.key = <<probe.term.state, StringOf(probe.term.district)>>
                   /\ probe.result.era = 2022
                   /\ probe.result.geometry.src = url
                   /\ probe.result.bioguide = probe.term.bioguide

\* C17 witness: NY-14 requested for 2024, resolved by its first fetch
C17_Witness ==
  /\ ncalls = 1
  /\ probe.term.state = "NY" /\ probe.term.district = 14 /\ probe.year = 2024
  /\ probe.pc = "done" /\ Len(probe.fetches) = 1
  /\ probe.result.type = "Feature"
  /\ probe.result.key = <<"NY", "14">> /\ probe.result.era = 2022

----------------------------------------------------------------------------
(* The shape cache over time (specification Spec) *)

\* every key of the shape cache stays, with the geometry it has
CacheEntriesKept ==
  \A k \in DOMAIN shapeCache :
    k \in DOMAIN shapeCache' /\ shapeCache'[k] = shapeCache[k]

\* C18: no step removes a key of the shape cache or replaces its geometry by
\* a different one.
C18_CacheAppendOnly == [][CacheEntriesKept]_vars

----------------------------------------------------------------------------
(* One district, two officeholders: the second asked for after the first *)

NextAnnotate ==
  \/ \E y \in Years : CallFetchDistrictShape(IF ncalls = 0 THEN T_a ELSE T_a2, y)
  \/ ProbeFetchSettles

SpecAnnotate == Init /\ [][NextAnnotate]_vars

\* C19: a feature returned from a shape-cache hit carries the party, person
\* id and state of the term of the current call and the cached geometry, and
\* the record that geometry came from is not fetched by the call.
C19_CacheHitAnnotatesCurrentTerm ==
  (probe.pc = "done" /\ probe.via = "cache")
    => /\ probe.result.type = "Feature"
       /\ probe.result.party = probe.term.party
       /\ probe.result.bioguide = probe.term.bioguide
       /\ probe.result.state = probe.term.state
       /\ Has(shapeCache, <<probe.era, probe.result.key>>)
       /\ shapeCache[<<probe.era, probe.result.key>>] = probe.result.geometry
       /\ probe.result.geometry.src \notin Fetched(probe)

\* C19 witness: the district was resolved for the first officeholder and the
\* call for the second one was answered from the cache, with the second
\* one's party and person id
C19_Witness ==
  /\ ncalls = 2
  /\ probe.pc = "done" /\ probe.via = "cache"
  /\ probe.term = T_a2
  /\ probe.result.bioguide = T_a2.bioguide /\ probe.result.party = T_a2.party
  /\ T_a2.bioguide # T_a.bioguide /\ T_a2.party # T_a.party

----------------------------------------------------------------------------
(* Superseded loadRealData calls (specification SpecLoad) *)

\* a step in which a call ends at a checkpoint, superseded
EndsSuperseded ==
  \E l \in DOMAIN loads :
    loads[l].pc # "done" /\ loads'[l].pc = "done" /\ loads'[l].fate = "stale"

UiKept ==
  /\ layer' = layer
  /\ termsByKeyRef' = termsByKeyRef
  /\ districtsCount' = districtsCount
  /\ isLoadingData' = isLoadingData

\* the loading indicator is on while the newest call is in flight
LoadingWhileNewestInFlight ==
  (loads # <<>> /\ loads[Len(loads)].pc # "done") => isLoadingData

\* C20: a call that ends superseded at a checkpoint changes neither the
\* districts layer, the click-lookup table, the district count nor the loading
\* indicator; the indicator stays on while the newest call is in flight.
C20_SupersededChangesNothing ==
  [][EndsSuperseded => UiKept]_vars /\ []LoadingWhileNewestInFlight

----------------------------------------------------------------------------
(* Keys of the features of one collection (specification SpecBig) *)

\* C21: no two features of the collection returned by
\* fetchAllDistrictShapesForYear have the same district key.
C21_OneFeaturePerKey ==
  \A c \in DOMAIN runs :
    \A j1, j2 \in DOMAIN runs[c].results :
      runs[c].results[j1].key = runs[c].results[j2].key => j1 = j2

----------------------------------------------------------------------------
(* Cache writes of overlapping calls (specification SpecLoad) *)

\* the fetchDistrictShape calls of a fetchAllDistrictShapesForYear call
FramesOf(c) == runs[c].past \o runs[c].batch

\* the call ended with an unguarded write to the shape cache (lines 583, 629, 651)
WroteCache(f) == f.pc = "done" /\ f.via \in {"record", "state", "substitute"}

WrittenKey(f) ==
  IF f.via = "state" THEN <<f.era, candidates(f.term)[1]>> ELSE <<f.usedEra, f.usedCode>>

\* C22: resolutions of a superseded call and of its successor that wrote the
\* same key of the shape cache wrote the same geometry.
C22_ConcurrentWritesAgree ==
  \A c1, c2 \in DOMAIN runs :
    (c1 # c2 /\ runs[c1].load # 0 /\ runs[c2].load # 0
       /\ (loads[runs[c1].load].overtaken \/ loads[runs[c2].load].overtaken))
      => \A k1 \in DOMAIN FramesOf(c1), k2 \in DOMAIN FramesOf(c2) :
           LET f1 == FramesOf(c1)[k1]
               f2 == FramesOf(c2)[k2]
           IN  (WroteCache(f1) /\ WroteCache(f2) /\ WrittenKey(f1) = WrittenKey(f2))
                 => f1.result.geometry = f2.result.geometry

----------------------------------------------------------------------------
(* Two districts of one state in one batch *)

PairRoster == <<T_a, T_b>>

NextPair ==
  \/ \E y \in BatchYears : CallFetchAll(PairRoster, y)
  \/ \E c \in DOMAIN runs, k \in 1..CONCURRENCY : RunFetchSettles(c, k)

SpecPair == Init /\ [][NextPair]_vars

\* the call fetched the bulk collection at url itself and found its district
\* in it: its fetch succeeded and was parsed
LoadedBulk(f, url) ==
  /\ f.pc = "done" /\ f.via = "bulk"
  /\ f.fetches # <<>> /\ f.fetches[1].url = url

\* C23: for every bulk collection, at most one fetch of it succeeds and is
\* parsed.
C23_BulkLoadedOnce ==
  \A c \in DOMAIN runs :
    \A k1, k2 \in DOMAIN FramesOf(c) :
      (k1 # k2 /\ FramesOf(c)[k1].fetches # <<>>)
        => ~(/\ LoadedBulk(FramesOf(c)[k1], FramesOf(c)[k1].fetches[1].url)
             /\ LoadedBulk(FramesOf(c)[k2], FramesOf(c)[k1].fetches[1].url))

----------------------------------------------------------------------------
(* The threshold of the bounding-box guard (specification Spec) *)

LonSpan(geometry) ==
  calculateBoundingBox(geometry).maxLon - calculateBoundingBox(geometry).minLon

LatSpan(geometry) ==
  calculateBoundingBox(geometry).maxLat - calculateBoundingBox(geometry).minLat

HasBox(geometry) == geometry.type # "null" /\ ~calculateBoundingBox(geometry).nil

\* C24: a per-district geometry whose spans are both at most 30 is accepted:
\* returned, and cached under (used vintage, used code); one with a span
\* above 30 is rejected: not returned, and no geometry of a per-district
\* record in the cache has a span above 30.
C24_ThresholdIsStrict ==
  /\ (probe.pc = "done" /\ probe.geojson.type # "null" /\ probe.usedEra # 0)
       => LET g == NormalizeGeometry(probe.geojson)
          IN  /\ (HasBox(g) /\ LonSpan(g) <= 30 /\ LatSpan(g) <= 30)
                   => /\ probe.via = "record"
                      /\ probe.result.geometry = g
                      /\ Has(shapeCache, <<probe.usedEra, probe.usedCode>>)
                      /\ shapeCache[<<probe.usedEra, probe.usedCode>>] = g
              /\ (HasBox(g) /\ (LonSpan(g) > 30 \/ LatSpan(g) > 30))
                   => /\ probe.via \in {"substitute", "implausible"}
                      /\ probe.result.geometry # g
  /\ \A k \in DOMAIN shapeCache :
       (shapeCache[k].src.kind = "cds" /\ HasBox(shapeCache[k]))
         => LonSpan(shapeCache[k]) <= 30 /\ LatSpan(shapeCache[k]) <= 30

\* C24 witness: a per-district geometry spanning exactly 30 by 30 was
\* returned and cached
C24_Witness ==
  /\ probe.pc = "done" /\ probe.via = "record"
  /\ probe.result.geometry.src.kind = "cds"
  /\ HasBox(probe.result.geometry)
  /\ LonSpan(probe.result.geometry) = 30 /\ LatSpan(probe.result.geometry) = 30
  /\ shapeCache[<<probe.usedEra, probe.usedCode>>] = probe.result.geometry

----------------------------------------------------------------------------
(* The request-generation counter (specification SpecLoad) *)

\* the k-th call holds id k, the counter is the number of calls started, and
\* only the latest call holds the counter's value
IdsFollowCounter ==
  /\ loadCounterRef = Len(loads)
  /\ \A l \in DOMAIN loads : loads[l].loadId = l
  /\ \A l1, l2 \in DOMAIN loads : l1 < l2 => loads[l1].loadId < loads[l2].loadId
  /\ \A l \in DOMAIN loads : loads[l].loadId = loadCounterRef => l = Len(loads)

\* the counter never decreases, and a new call raises it by exactly one
CounterStep ==
  /\ loadCounterRef' >= loadCounterRef
  /\ Len(loads') > Len(loads)
       => /\ loadCounterRef' = loadCounterRef + 1
          /\ loads'[Len(loads')].loadId = loadCounterRef'

\* C25: every loadRealData call raises the counter by one and captures the new
\* value; ids are distinct and increase in call order, the counter never
\* decreases, and only the latest call holds an id equal to the counter.
C25_CounterIssuesIds == []IdsFollowCounter /\ [][CounterStep]_vars

\* C25 witness: two calls in flight at once, with ids 1 and 2
C25_Witness ==
  /\ Len(loads) = 2
  /\ loads[1].pc # "done" /\ loads[2].pc # "done"
  /\ loads[1].loadId = 1 /\ loads[2].loadId = 2
  /\ loadCounterRef = 2

----------------------------------------------------------------------------
(* The roster loader, the click-lookup table and the final state
   (specification SpecLoad) *)

\* C26: once the loader has loaded (isLoaded), its term list stays the loaded
\* one: no later load attempt empties it.
C26_LoadedTermsKept ==
  dataLoader.isLoaded => dataLoader.allTerms = flattenLegislatorTerms(LegislatorRecords)

\* C27: while a districts layer is rendered, the click-lookup table is the one
\* built from the roster of the request whose collection is rendered.
C27_TableMatchesLayer ==
  layer.by # 0 /\ layer.features # <<>>
    => termsByKeyRef = ByKey(runs[loads[layer.by].run].terms)

\* every loadRealData call made has ended: nothing is pending
Quiescent == loads # <<>> /\ \A l \in DOMAIN loads : loads[l].pc = "done"

\* C28: when every call has ended, the layer shows the collection computed
\* for the year of the last call, the click-lookup table is that call's and
\* the loading indicator is off.
C28_FinalStateIsLastRequest ==
  Quiescent =>
    LET L == loads[Len(loads)]
    IN  /\ L.fate = "rendered" /\ L.run # 0
        /\ layer.by = L.loadId /\ layer.year = L.year
        /\ runs[L.run].st = "returned" /\ runs[L.run].year = L.year
        /\ layer.features = runs[L.run].results
        /\ districtsCount = Len(runs[L.run].results)
        /\ termsByKeyRef = ByKey(runs[L.run].terms)
        /\ isLoadingData = FALSE

\* C28 witness: two calls for different years have ended, the first one after
\* the second; the layer shows the second one's features
C28_Witness ==
  /\ Quiescent /\ Len(loads) = 2
  /\ loads[1].year # loads[2].year
  /\ loads[1].fate = "stale" /\ loads[1].sawLayer = loads[2].loadId
  /\ layer.by = loads[2].loadId /\ layer.features # <<>>
  /\ termsByKeyRef # EmptyMap
  /\ isLoadingData = FALSE

----------------------------------------------------------------------------
(* What a returned feature says about its district (specification Spec) *)

\* C29: the __era of every returned feature is getDistrictEra(year) of the
\* call that returned it.
C29_EraIsRequestedEra ==
  (probe.pc = "done" /\ probe.result.type = "Feature")
    => probe.result.era = getDistrictEra(probe.year)

\* the codes that name the term's own state and district
OwnCodes(term) == {candidates(term)[i] : i \in DOMAIN candidates(term)}

\* the record at url, with the label of the feature taken from it, is the
\* term's own district's record or its state's whole-state record
OwnRecord(term, url, label) ==
  \/ url.kind = "states" /\ url.state = term.state
  \/ url.kind = "cds" /\ <<url.state, url.label>> \in OwnCodes(term)
  \/ /\ url.kind = "1789-2012" /\ url.state = abbrToStateName(term.state)
     /\ \E i \in DOMAIN targets(term) : targets(term)[i] = label

\* C30: the __key of every returned feature names the term's own state and
\* district, and its geometry is taken from that district's record or from
\* the whole-state record of that state.
C30_OwnDistrictDrawn ==
  (probe.pc = "done" /\ probe.result.type = "Feature")
    => /\ probe.result.key \in OwnCodes(probe.term)
       /\ probe.result.geometry.type # "null"
            => OwnRecord(probe.term, probe.result.geometry.src,
                         probe.result.geometry.label)

----------------------------------------------------------------------------
(* What the shape cache holds for a numbered district (specification Spec) *)

\* the cache key names a numbered district
NumberedKey(key) == key[2][2] \notin {"AL", "0"}

\* C31: under the key of a numbered district the shape cache holds only a
\* geometry taken from a bulk or per-district record of that district, never
\* a whole-state boundary; so a cache hit for a numbered district does not
\* return the state's outline.
C31_NoStateOutlineUnderNumberedKey ==
  /\ \A key \in DOMAIN shapeCache :
       (NumberedKey(key) /\ shapeCache[key].type # "null")
         => LET g == shapeCache[key]
            IN  \/ g.src.kind = "cds" /\ <<g.src.state, g.src.label>> = key[2]
                \/ /\ g.src.kind = "1789-2012"
                   /\ g.src.state = abbrToStateName(key[2][1])
                   /\ g.label = key[2][2]
  /\ (probe.pc = "done" /\ probe.via = "cache" /\ ~IsAtLarge(probe.term.district))
       => probe.result.geometry.src.kind # "states"

----------------------------------------------------------------------------
(* The order of the features of a collection (specification SpecBatch) *)

\* the index in terms of the first House term of the district a feature is for
FirstIndexOf(terms, feature) ==
  SetMin({i \in DOMAIN terms :
            /\ terms[i].chamber = "House"
            /\ CodeOf(terms[i]) = <<feature.state, feature.district>>})

\* C32: the features of a collection are in the order of first occurrence of
\* their districts in the input term list, whatever the order in which the
\* calls of a batch returned.
C32_InputOrderKept ==
  \A c \in DOMAIN runs :
    \A j1, j2 \in DOMAIN runs[c].results :
      j1 < j2 => FirstIndexOf(runs[c].terms, runs[c].results[j1])
                   < FirstIndexOf(runs[c].terms, runs[c].results[j2])

\* C32 witness: a returned collection of two features whose second call
\* returned before its first
C32_Witness ==
  \E c \in DOMAIN runs :
    /\ runs[c].st = "returned"
    /\ Len(runs[c].results) = 2
    /\ runs[c].order = <<2, 1>>
    /\ runs[c].results[1].bioguide = runs[c].unique[1].bioguide
    /\ runs[c].results[2].bioguide = runs[c].unique[2].bioguide

----------------------------------------------------------------------------
(* The Congress block of a vintage: calls for one year of every vintage *)

VintageYears == {1965, 1975, 1985, 1995, 2005, 2015, 2024}

NextVintage ==
  \/ \E y \in VintageYears : CallFetchDistrictShape(T_b, y)
  \/ ProbeFetchSettles

SpecVintage == Init /\ [][NextVintage]_vars

\* the bulk collections a call has requested
BulkFetches(r) ==
  {r.fetches[i].url : i \in {j \in DOMAIN r.fetches : r.fetches[j].url.kind = "1789-2012"}}

\* the Congresses of a block
Block(range) == range.start..range.end

\* C33: a legacy vintage maps to the five Congresses starting at the one that
\* convenes in the year after the vintage (1962 -> 88..92, 1972 -> 93..97,
\* 1982 -> 98..102, 1992 -> 103..107, 2002 -> 108..112); the blocks are
\* contiguous and pairwise disjoint; a vintage above 2002 has no block, and a
\* call at vintage 2012 or 2022 requests no bulk collection, while a call at
\* a legacy vintage requests only the collection of its block.
C33_CongressBlocks ==
  probe.pc # "idle" =>
    LET e == probe.era
        range == eraToCongressRange(e)
    IN  /\ e = 1962 => (range.start = 88 /\ range.end = 92)
        /\ e = 1972 => (range.start = 93 /\ range.end = 97)
        /\ e = 1982 => (range.start = 98 /\ range.end = 102)
        /\ e = 1992 => (range.start = 103 /\ range.end = 107)
        /\ e = 2002 => (range.start = 108 /\ range.end = 112)
        /\ e <= 2002
             => /\ Cardinality(Block(range)) = 5
                /\ 1789 + 2 * (range.start - 1) = e + 1
                /\ e < 2002 => eraToCongressRange(e + 10).start = range.end + 1
                /\ \A e2 \in Eras :
                     (e2 <= 2002 /\ e2 # e)
                       => Block(eraToCongressRange(e2)) \cap Block(range) = {}
                /\ \A u \in BulkFetches(probe) : u.lo = range.start /\ u.hi = range.end
        /\ e > 2002
             => /\ range = [start |-> 0, end |-> 0]
                /\ BulkFetches(probe) = {}

\* C33 witness: a call at vintage 2002 that has returned after requesting the
\* collection of Congresses 108 to 112
C33_Witness ==
  /\ probe.pc = "done" /\ probe.era = 2002
  /\ \E u \in BulkFetches(probe) : u.lo = 108 /\ u.hi = 112 /\ u.state = "New_York"

====
